---- MODULE Spec2Model ----
(***************************************************************************)
(* Model of the teraskopi point-of-sale client: the order-status          *)
(* derivation and item-status handler of the Reports page                 *)
(* (src/src/pages/Reports.tsx) and the cart and checkout of the POS page  *)
(* (src/src/pages/POS.tsx), together with the rows of the hosted backend  *)
(* they read and write.                                                   *)
(***************************************************************************)
EXTENDS Integers, Sequences, FiniteSets, TLC

VARIABLES
    \* inputs and result of calculateOrderStatus (Reports.tsx:315)
    calcOrderId, calcItems, calcResult,
    \* POS page state (POS.tsx:47-56)
    menus, cartItems, paymentMethod, cashReceived, orderType, customerName,
    \* title of the notification shown last (useToast)
    toast,
    \* backend tables orders and order_items
    dbOrders, dbOrderItems,
    \* Reports page state (Reports.tsx:54-55)
    orders, orderItems,
    \* updateOrderItemStatus and fetchData invocations of the Reports page
    \* that wait for the backend
    calls, fetches,
    \* the updateOrderItemStatus call that succeeded last, while no call has
    \* written to the backend since
    lastDone,
    \* Users page state (Users.tsx:43-53) and the signed-in user's id
    profiles, loading, dialogOpen, editingProfile, formData, user,
    \* backend table profiles
    dbProfiles,
    \* requests of the Users page that wait for the backend
    userCalls,
    \* change notifications on their way to the Reports page, whether its
    \* channels are subscribed, and the number of writes by other clients
    events, subscribed, writes

calcVars == <<calcOrderId, calcItems, calcResult>>

cartVars == <<menus, cartItems>>

formVars == <<paymentMethod, cashReceived, orderType, customerName>>

dbVars == <<dbOrders, dbOrderItems>>

reportVars == <<orders, orderItems, calls, fetches, lastDone>>

rtVars == <<events, subscribed, writes>>

usersVars == <<profiles, loading, dialogOpen, editingProfile, formData, user,
               dbProfiles, userCalls>>

vars == <<calcOrderId, calcItems, calcResult,
          menus, cartItems, paymentMethod, cashReceived, orderType,
          customerName, toast, dbOrders, dbOrderItems,
          orders, orderItems, calls, fetches, lastDone,
          profiles, loading, dialogOpen, editingProfile, formData, user,
          dbProfiles, userCalls, events, subscribed, writes>>

----------------------------------------------------------------------------
(* Bounds *)

\* longest item list handed to calculateOrderStatus
MaxItems == 3
\* largest qty of an order item in the calculateOrderStatus inputs
MaxQty == 2
\* most lines the cart holds
MaxCartLines == 2
\* most orders the backend table holds
MaxOrders == 1
\* most updateOrderItemStatus calls in flight at once
MaxCalls == 2
\* most fetchData calls in flight at once
MaxFetches == 1
\* most writes to the backend by other clients
MaxWrites == 2

----------------------------------------------------------------------------
(* Generic list helpers (Array.prototype.map / every / some) *)

SeqMap(s, F(_)) == [i \in 1..Len(s) |-> F(s[i])]

Every(s, P(_)) == \A i \in 1..Len(s) : P(s[i])

Some(s, P(_)) == \E i \in 1..Len(s) : P(s[i])

----------------------------------------------------------------------------
(* Reports.tsx: order status derived from item statuses *)

ItemStatuses == {"pending", "preparing", "ready", "delivered"}

OrderIds == {1, 2}

\* calculateOrderStatus with a plausible slip: a delivered item does not
\* count as started
calculateOrderStatus_nodelivered(orderId, items) ==
    LET itemsOfOrder == SelectSeq(items, LAMBDA item : item.order_id = orderId)
        allDelivered == Every(itemsOfOrder, LAMBDA item : item.status = "delivered")
        allReady == Every(itemsOfOrder, LAMBDA item :
                        item.status = "ready" \/ item.status = "delivered")
        anyPreparing == Some(itemsOfOrder, LAMBDA item :
                        item.status = "preparing" \/ item.status = "ready")
    IN  IF Len(itemsOfOrder) = 0 THEN "pending"
        ELSE IF allDelivered THEN "completed"
        ELSE IF allReady THEN "ready"
        ELSE IF anyPreparing THEN "preparing"
        ELSE "pending"

\* calculateOrderStatus with a plausible slip: the test for an order without
\* items is missing
calculateOrderStatus_noempty(orderId, items) ==
    LET itemsOfOrder == SelectSeq(items, LAMBDA item : item.order_id = orderId)
        allDelivered == Every(itemsOfOrder, LAMBDA item : item.status = "delivered")
        allReady == Every(itemsOfOrder, LAMBDA item :
                        item.status = "ready" \/ item.status = "delivered")
        anyPreparing == Some(itemsOfOrder, LAMBDA item :
                        item.status = "preparing" \/ item.status = "ready"
                        \/ item.status = "delivered")
    IN  IF allDelivered THEN "completed"
        ELSE IF allReady THEN "ready"
        ELSE IF anyPreparing THEN "preparing"
        ELSE "pending"

\* calculateOrderStatus with a plausible slip: the order_id filter is dropped
calculateOrderStatus_nofilter(orderId, items) ==
    LET itemsOfOrder == items
        allDelivered == Every(itemsOfOrder, LAMBDA item : item.status = "delivered")
        allReady == Every(itemsOfOrder, LAMBDA item :
                        item.status = "ready" \/ item.status = "delivered")
        anyPreparing == Some(itemsOfOrder, LAMBDA item :
                        item.status = "preparing" \/ item.status = "ready"
                        \/ item.status = "delivered")
    IN  IF Len(itemsOfOrder) = 0 THEN "pending"
        ELSE IF allDelivered THEN "completed"
        ELSE IF allReady THEN "ready"
        ELSE IF anyPreparing THEN "preparing"
        ELSE "pending"

\* calculateOrderStatus with a plausible slip: anyPreparing looks at
\* 'preparing' items only
calculateOrderStatus_onlypreparing(orderId, items) ==
    LET itemsOfOrder == SelectSeq(items, LAMBDA item : item.order_id = orderId)
        allDelivered == Every(itemsOfOrder, LAMBDA item : item.status = "delivered")
        allReady == Every(itemsOfOrder, LAMBDA item :
                        item.status = "ready" \/ item.status = "delivered")
        anyPreparing == Some(itemsOfOrder, LAMBDA item : item.status = "preparing")
    IN  IF Len(itemsOfOrder) = 0 THEN "pending"
        ELSE IF allDelivered THEN "completed"
        ELSE IF allReady THEN "ready"
        ELSE IF anyPreparing THEN "preparing"
        ELSE "pending"

\* the filtered list is named orderItems in the source, like the page state
calculateOrderStatus(orderId, items) ==
    LET itemsOfOrder == SelectSeq(items, LAMBDA item : item.order_id = orderId)
        allDelivered == Every(itemsOfOrder, LAMBDA item : item.status = "delivered")
        allReady == Every(itemsOfOrder, LAMBDA item :
                        item.status = "ready" \/ item.status = "delivered")
        anyPreparing == Some(itemsOfOrder, LAMBDA item :
                        item.status = "preparing" \/ item.status = "ready"
                        \/ item.status = "delivered")
        anyReady == Some(itemsOfOrder, LAMBDA item :
                        item.status = "ready" \/ item.status = "delivered")
    IN  IF Len(itemsOfOrder) = 0 THEN "pending"
        ELSE IF allDelivered THEN "completed"
        ELSE IF allReady THEN "ready"
        ELSE IF anyPreparing THEN "preparing"
        ELSE "pending"

----------------------------------------------------------------------------
(* calculateOrderStatus applied to bounded item lists *)

\* an order item as calculateOrderStatus sees it: order_id and status are
\* read, qty stands for the fields it does not read
CalcItemRows ==
    [order_id : OrderIds, status : ItemStatuses, qty : 1..MaxQty]

CalcStart ==
    /\ calcOrderId \in OrderIds
    /\ calcItems = <<>>
    /\ calcResult = calculateOrderStatus(calcOrderId, <<>>)

\* calculateOrderStatus not in use
CalcIdle ==
    /\ calcOrderId = 1
    /\ calcItems = <<>>
    /\ calcResult = "pending"

\* POS page as constructed (POS.tsx:47-56), before the first fetch returns
PosIdle ==
    /\ menus = <<>>
    /\ cartItems = <<>>
    /\ paymentMethod = "cash"
    /\ cashReceived = <<>>
    /\ orderType = "order_and_pay"
    /\ customerName = <<>>

\* no notification shown, empty backend tables
EnvIdle ==
    /\ toast = "none"
    /\ dbOrders = <<>>
    /\ dbOrderItems = <<>>

\* Reports page not mounted
ReportsIdle ==
    /\ orders = <<>>
    /\ orderItems = <<>>
    /\ calls = <<>>
    /\ fetches = <<>>
    /\ lastDone = <<>>

\* no notification channel
RealtimeIdle ==
    /\ events = <<>>
    /\ subscribed = FALSE
    /\ writes = 0

\* Users page not mounted
UsersIdle ==
    /\ profiles = <<>>
    /\ loading = TRUE
    /\ dialogOpen = FALSE
    /\ editingProfile = <<>>
    /\ formData = [full_name |-> <<>>, email |-> <<>>, role |-> "staff"]
    /\ user = 1
    /\ dbProfiles = <<>>
    /\ userCalls = <<>>

CalcInit ==
    CalcStart /\ PosIdle /\ EnvIdle /\ ReportsIdle /\ UsersIdle /\ RealtimeIdle

\* the list changes to newItems and the status is derived again
CalcApply(newItems) ==
    /\ calcItems' = newItems
    /\ calcResult' = calculateOrderStatus(calcOrderId, newItems)
    /\ UNCHANGED <<rtVars, usersVars, reportVars, calcOrderId, cartVars, formVars, toast, dbVars>>

CalcAddItem ==
    /\ Len(calcItems) < MaxItems
    /\ \E row \in CalcItemRows :
          CalcApply(Append(calcItems, row))

CalcRemoveItem ==
    \E i \in 1..Len(calcItems) :
        CalcApply([j \in 1..(Len(calcItems) - 1) |->
                      IF j < i THEN calcItems[j] ELSE calcItems[j + 1]])

CalcSwapItems ==
    \E i \in 1..(Len(calcItems) - 1) :
        /\ calcItems[i] # calcItems[i + 1]
        /\ CalcApply([calcItems EXCEPT ![i] = calcItems[i + 1],
                                       ![i + 1] = calcItems[i]])

CalcSetQty ==
    \E i \in 1..Len(calcItems), q \in 1..MaxQty :
        /\ q # calcItems[i].qty
        /\ CalcApply([calcItems EXCEPT ![i].qty = q])

CalcSetStatus ==
    \E i \in 1..Len(calcItems), s \in ItemStatuses :
        /\ s # calcItems[i].status
        /\ CalcApply([calcItems EXCEPT ![i].status = s])

CalcNext ==
    \/ CalcAddItem
    \/ CalcRemoveItem
    \/ CalcSwapItems
    \/ CalcSetQty
    \/ CalcSetStatus

SpecCalc == CalcInit /\ [][CalcNext]_vars

----------------------------------------------------------------------------
(* Claims about calculateOrderStatus *)

\* statuses of the items of order o in list items, in list order
OwnStatuses(o, items) ==
    LET own == SelectSeq(items, LAMBDA item : item.order_id = o)
    IN  [i \in 1..Len(own) |-> own[i].status]

\* number of items of order o with status s
StatusCount(o, items, s) ==
    Cardinality({i \in 1..Len(items) :
                    items[i].order_id = o /\ items[i].status = s})

\* the multiset of statuses of the items of order o
StatusBag(o, items) == [s \in ItemStatuses |-> StatusCount(o, items, s)]

CalcOwn == OwnStatuses(calcOrderId, calcItems)

CalcAll(S) == \A i \in 1..Len(CalcOwn) : CalcOwn[i] \in S

CalcAny(S) == \E i \in 1..Len(CalcOwn) : CalcOwn[i] \in S

\* C1 as stated: for a non-empty order, completed if all items are delivered,
\* else ready if all are ready or delivered, else preparing if some item has
\* status 'preparing', else pending.
C1_FourCaseAsStated ==
    Len(CalcOwn) > 0 =>
        calcResult =
            IF CalcAll({"delivered"}) THEN "completed"
            ELSE IF CalcAll({"ready", "delivered"}) THEN "ready"
            ELSE IF CalcAny({"preparing"}) THEN "preparing"
            ELSE "pending"

\* C1 amended: for a non-empty order, completed if all items are delivered,
\* else ready if all are ready or delivered, else preparing if some item is
\* preparing, ready or delivered, else pending.
C1_FourCase ==
    Len(CalcOwn) > 0 =>
        calcResult =
            IF CalcAll({"delivered"}) THEN "completed"
            ELSE IF CalcAll({"ready", "delivered"}) THEN "ready"
            ELSE IF CalcAny({"preparing", "ready", "delivered"}) THEN "preparing"
            ELSE "pending"

\* a mixed order: one item still pending, another already ready or delivered
C1_Witness ==
    /\ CalcAny({"pending"})
    /\ CalcAny({"ready", "delivered"})
    /\ calcResult = "preparing"

\* C2: the derived status depends only on the multiset of statuses of the
\* order's own items: a step that keeps that multiset (a permutation, a change
\* of another field, any change to items of other orders) keeps the status.
C2_OnlyStatusBag ==
    [][StatusBag(calcOrderId, calcItems') = StatusBag(calcOrderId, calcItems)
          => calcResult' = calcResult]_vars

\* the status was derived for an order whose two items differ in status and
\* in qty, listed after a delivered item of another order
C2_Witness ==
    /\ Len(calcItems) = 3
    /\ calcItems[1].order_id # calcOrderId
    /\ calcItems[2].qty # calcItems[3].qty
    /\ Len(CalcOwn) = 2
    /\ CalcOwn[1] # CalcOwn[2]
    /\ \E i \in 1..Len(calcItems) :
          /\ calcItems[i].order_id # calcOrderId
          /\ calcItems[i].status = "delivered"
    /\ calcResult \in {"preparing", "ready"}

\* C14: for a non-empty order, calculateOrderStatus gives 'pending' only when
\* every item is pending, and gives 'preparing' as soon as some item is
\* preparing, ready or delivered while not all are ready or delivered.
C14_PreparingOnceStarted ==
    Len(CalcOwn) > 0 =>
        /\ calcResult = "pending" <=> CalcAll({"pending"})
        /\ (CalcAny({"preparing", "ready", "delivered"})
              /\ ~CalcAll({"ready", "delivered"})) => calcResult = "preparing"

\* the order's two items are one pending, one delivered
C14_Witness ==
    /\ Len(CalcOwn) = 2
    /\ CalcAny({"pending"})
    /\ CalcAny({"delivered"})
    /\ calcResult = "preparing"

\* C15: for an order id without an item in the list, calculateOrderStatus
\* gives 'pending', whatever the items of other orders.
C15_NoItemsPending ==
    Len(CalcOwn) = 0 => calcResult = "pending"

\* the list holds only items of the other order, all delivered
C15_Witness ==
    /\ Len(calcItems) >= 2
    /\ Len(CalcOwn) = 0
    /\ \A i \in 1..Len(calcItems) : calcItems[i].status = "delivered"
    /\ calcResult = "pending"

----------------------------------------------------------------------------
(* POS.tsx: texts and numbers *)

\* a text is a sequence of characters; notes and names are typed over
\* blank and letter, cash over sign and digits

\* String.prototype.trim
RECURSIVE TrimStart(_)
TrimStart(t) ==
    IF t # <<>> /\ Head(t) = " " THEN TrimStart(Tail(t)) ELSE t

RECURSIVE TrimEnd(_)
TrimEnd(t) ==
    IF t # <<>> /\ t[Len(t)] = " "
    THEN TrimEnd(SubSeq(t, 1, Len(t) - 1)) ELSE t

Trim(t) == TrimEnd(TrimStart(t))

\* an optional text: undefined / null, or a text
Undefined == <<>>

Defined(t) == <<t>>

\* (notes || ''): undefined and the empty text both give the empty text
OrEmpty(n) == IF n = Undefined THEN <<>> ELSE n[1]

\* notes.trim() || undefined
TrimOrUndefined(t) == IF Trim(t) = <<>> THEN Undefined ELSE Defined(Trim(t))

DigitValue ==
    ("0" :> 0) @@ ("1" :> 1) @@ ("2" :> 2) @@ ("3" :> 3) @@ ("4" :> 4) @@
    ("5" :> 5) @@ ("6" :> 6) @@ ("7" :> 7) @@ ("8" :> 8) @@ ("9" :> 9)

\* length of the longest prefix of t made of digits
RECURSIVE DigitPrefixLen(_)
DigitPrefixLen(t) ==
    IF t # <<>> /\ Head(t) \in DOMAIN DigitValue
    THEN 1 + DigitPrefixLen(Tail(t)) ELSE 0

\* value of the decimal digits t
RECURSIVE DigitsValue(_)
DigitsValue(t) ==
    IF t = <<>> THEN 0
    ELSE 10 * DigitsValue(SubSeq(t, 1, Len(t) - 1)) + DigitValue[t[Len(t)]]

\* the result of parseFloat: NaN, or a number (whole numbers only here)
NaN == <<>>

Number(n) == <<n>>

\* parseFloat: skips leading blanks, reads an optional sign and the longest
\* run of digits, ignores what follows; NaN when there is no digit
parseFloat(t) ==
    LET u == TrimStart(t)
        signed == u # <<>> /\ Head(u) \in {"-", "+"}
        body == IF signed THEN Tail(u) ELSE u
        k == DigitPrefixLen(body)
        v == DigitsValue(SubSeq(body, 1, k))
    IN  IF k = 0 THEN NaN
        ELSE IF signed /\ Head(u) = "-" THEN Number(0 - v) ELSE Number(v)

\* (x || 0) for a parseFloat result: NaN and 0 are falsy
OrZero(r) == IF r = NaN THEN 0 ELSE r[1]

----------------------------------------------------------------------------
(* POS.tsx: catalogue served by the backend *)

MenuIds == {1, 2}

\* menus.price
MenuPrice == (1 :> 3) @@ (2 :> 2)

\* menus.stock as the backend holds it at different times: menu 1 keeps its
\* stock, menu 2 sells down and runs out
StockTables == {(1 :> 2) @@ (2 :> 2), (1 :> 2) @@ (2 :> 1), (1 :> 2) @@ (2 :> 0)}

\* menu_variations rows: menu 1 has two active variations, menu 2 none
VariationsOf == (1 :> {1, 2}) @@ (2 :> {})

\* menu_variations.price_adjustment
VariationAdj == (1 :> 1) @@ (2 :> 2)

\* the selections the variation dialog can build (POS.tsx:727-736): every
\* duplicate-free sequence of the menu's variations, in click order
VarSelectionTable ==
    [m \in MenuIds |->
        UNION {{sel \in [1..n -> VariationsOf[m]] :
                    \A i, j \in 1..n : i # j => sel[i] # sel[j]} :
               n \in 0..Cardinality(VariationsOf[m])}]

VarSelections(m) == VarSelectionTable[m]

\* texts typed into the notes field
NotesInputs == {<<>>, <<" ">>, <<"a">>, <<" ", "a", " ">>}

\* a menu as the page holds it
MenuRow(m) == [id |-> m, price |-> MenuPrice[m], stock |-> menus[m]]

----------------------------------------------------------------------------
(* POS.tsx: cart *)

\* Array.prototype.sort on ids
RECURSIVE SortIds(_)
SortIds(ids) ==
    IF ids = <<>> THEN <<>>
    ELSE LET rest == SortIds(Tail(ids))
             k == Cardinality({i \in 1..Len(rest) : rest[i] < Head(ids)})
         IN  SubSeq(rest, 1, k) \o <<Head(ids)>> \o SubSeq(rest, k + 1, Len(rest))

\* variations.map(v => v.id).sort().join(','); ids hold no comma, so the
\* joined text is the sorted id list
VariationKey(variations) == SortIds(variations)

\* variations.reduce((sum, v) => sum + v.price_adjustment, 0)
RECURSIVE variationPrice(_)
variationPrice(variations) ==
    IF variations = <<>> THEN 0
    ELSE VariationAdj[Head(variations)] + variationPrice(Tail(variations))

\* the line test of updateQuantity and removeFromCart (POS.tsx:218-222)
lineMatches(item, id, variations, notes) ==
    /\ item.id = id
    /\ VariationKey(item.selectedVariations) = VariationKey(variations)
    /\ OrEmpty(item.notes) = OrEmpty(notes)

removeFromCart(cart, id, variations, notes) ==
    SelectSeq(cart, LAMBDA item : ~lineMatches(item, id, variations, notes))

\* updateQuantity with a plausible slip: only a negative quantity removes
\* the line
updateQuantity_negativeonly(cart, id, quantity, variations, notes) ==
    IF quantity < 0 THEN removeFromCart(cart, id, variations, notes)
    ELSE SeqMap(cart, LAMBDA item :
            IF lineMatches(item, id, variations, notes)
            THEN IF quantity > item.stock THEN item
                 ELSE [item EXCEPT
                          !.quantity = quantity,
                          !.subtotal = (item.price
                              + variationPrice(item.selectedVariations)) * quantity]
            ELSE item)

updateQuantity(cart, id, quantity, variations, notes) ==
    IF quantity <= 0 THEN removeFromCart(cart, id, variations, notes)
    ELSE SeqMap(cart, LAMBDA item :
            IF lineMatches(item, id, variations, notes)
            THEN IF quantity > item.stock THEN item
                 ELSE [item EXCEPT
                          !.quantity = quantity,
                          !.subtotal = (item.price
                              + variationPrice(item.selectedVariations)) * quantity]
            ELSE item)

\* whether updateQuantity shows 'Stok Tidak Cukup'
updateQuantityRefused(cart, id, quantity, variations, notes) ==
    /\ quantity > 0
    /\ Some(cart, LAMBDA item :
            lineMatches(item, id, variations, notes) /\ quantity > item.stock)

\* cartItems.find(...) of addToCart: positions of the lines with the key
existingLines(cart, menu, variations, notes) ==
    {i \in 1..Len(cart) :
        /\ cart[i].id = menu.id
        /\ VariationKey(cart[i].selectedVariations) = VariationKey(variations)
        /\ OrEmpty(cart[i].notes) = Trim(notes)}

\* addToCart with a plausible slip: the subtotal of a new line leaves out
\* the variations
addToCart_basePrice(cart, menu, variations, notes) ==
    LET found == existingLines(cart, menu, variations, notes)
    IN  IF found # {}
        THEN LET existingItem == cart[CHOOSE i \in found : \A j \in found : i <= j]
             IN  IF existingItem.quantity >= menu.stock THEN cart
                 ELSE updateQuantity(cart, existingItem.id,
                          existingItem.quantity + 1,
                          existingItem.selectedVariations, existingItem.notes)
        ELSE Append(cart, [id |-> menu.id, price |-> menu.price,
                           stock |-> menu.stock, quantity |-> 1,
                           subtotal |-> menu.price,
                           selectedVariations |-> variations,
                           notes |-> TrimOrUndefined(notes)])

\* addToCart with a plausible slip: the notes are compared untrimmed
addToCart_untrimmedKey(cart, menu, variations, notes) ==
    LET found == {i \in 1..Len(cart) :
                    /\ cart[i].id = menu.id
                    /\ VariationKey(cart[i].selectedVariations)
                          = VariationKey(variations)
                    /\ OrEmpty(cart[i].notes) = notes}
        finalPrice == menu.price + variationPrice(variations)
    IN  IF found # {}
        THEN LET existingItem == cart[CHOOSE i \in found : \A j \in found : i <= j]
             IN  IF existingItem.quantity >= menu.stock THEN cart
                 ELSE updateQuantity(cart, existingItem.id,
                          existingItem.quantity + 1,
                          existingItem.selectedVariations, existingItem.notes)
        ELSE Append(cart, [id |-> menu.id, price |-> menu.price,
                           stock |-> menu.stock, quantity |-> 1,
                           subtotal |-> finalPrice,
                           selectedVariations |-> variations,
                           notes |-> TrimOrUndefined(notes)])

\* the cart after addToCart(menu, variations, notes)
addToCart(cart, menu, variations, notes) ==
    LET found == existingLines(cart, menu, variations, notes)
        finalPrice == menu.price + variationPrice(variations)
    IN  IF found # {}
        THEN LET existingItem == cart[CHOOSE i \in found : \A j \in found : i <= j]
             IN  IF existingItem.quantity >= menu.stock THEN cart
                 ELSE updateQuantity(cart, existingItem.id,
                          existingItem.quantity + 1,
                          existingItem.selectedVariations, existingItem.notes)
        ELSE Append(cart, [id |-> menu.id, price |-> menu.price,
                           stock |-> menu.stock, quantity |-> 1,
                           subtotal |-> finalPrice,
                           selectedVariations |-> variations,
                           notes |-> TrimOrUndefined(notes)])

\* the notification addToCart shows last
addToCartToast(cart, menu, variations, notes) ==
    LET found == existingLines(cart, menu, variations, notes)
    IN  IF /\ found # {}
           /\ cart[CHOOSE i \in found : \A j \in found : i <= j].quantity
                 >= menu.stock
        THEN "Stok Tidak Cukup"
        ELSE "Item Ditambahkan"

\* fetchData: the menus query returns the active menus with stock > 0
PosFetchDataOk ==
    /\ \E tbl \in StockTables :
          menus' = [m \in {x \in MenuIds : tbl[x] > 0} |-> tbl[m]]
    /\ UNCHANGED <<rtVars, usersVars, reportVars, calcVars, cartItems, formVars, toast, dbVars>>

PosFetchDataError ==
    /\ toast' = "Error"
    /\ UNCHANGED <<rtVars, usersVars, reportVars, calcVars, cartVars, formVars, dbVars>>

\* 'Tambah ke Keranjang' in the variation dialog
AddToCart(m, variations, notes) ==
    LET after == addToCart(cartItems, MenuRow(m), variations, notes)
    IN  /\ Len(after) <= MaxCartLines
        /\ cartItems' = after
        /\ toast' = addToCartToast(cartItems, MenuRow(m), variations, notes)
        /\ UNCHANGED <<rtVars, usersVars, reportVars, calcVars, menus, formVars, dbVars>>

\* the plus and minus buttons of cart line i
UpdateQuantity(i, quantity) ==
    LET item == cartItems[i]
    IN  /\ cartItems' = updateQuantity(cartItems, item.id, quantity,
                            item.selectedVariations, item.notes)
        /\ toast' = IF updateQuantityRefused(cartItems, item.id, quantity,
                            item.selectedVariations, item.notes)
                    THEN "Stok Tidak Cukup" ELSE toast
        /\ UNCHANGED <<rtVars, usersVars, reportVars, calcVars, menus, formVars, dbVars>>

\* the trash button of cart line i
RemoveFromCart(i) ==
    LET item == cartItems[i]
    IN  /\ cartItems' = removeFromCart(cartItems, item.id,
                            item.selectedVariations, item.notes)
        /\ UNCHANGED <<rtVars, usersVars, reportVars, calcVars, menus, formVars, toast, dbVars>>

CartAdd ==
    \E m \in DOMAIN menus :
        \E variations \in VarSelections(m), notes \in NotesInputs :
            AddToCart(m, variations, notes)

CartPlus == \E i \in 1..Len(cartItems) : UpdateQuantity(i, cartItems[i].quantity + 1)

CartMinus == \E i \in 1..Len(cartItems) : UpdateQuantity(i, cartItems[i].quantity - 1)

CartRemove == \E i \in 1..Len(cartItems) : RemoveFromCart(i)

CartInit ==
    CalcIdle /\ PosIdle /\ EnvIdle /\ ReportsIdle /\ UsersIdle /\ RealtimeIdle

CartNext ==
    \/ PosFetchDataOk
    \/ PosFetchDataError
    \/ CartAdd
    \/ CartPlus
    \/ CartMinus
    \/ CartRemove

\* the cart of the POS page, filled from the catalogue
SpecCart == CartInit /\ [][CartNext]_vars

----------------------------------------------------------------------------
(* POS.tsx: checkout *)

PaymentMethods == {"cash", "debit", "credit", "ewallet"}

OrderTypes == {"order_and_pay", "order_only"}

\* texts typed into the customer name field
NameInputs == {<<>>, <<" ">>, <<" ", "a">>}

\* texts the number field hands to setCashReceived
CashInputs == {<<>>, <<"3">>, <<"1", "0">>, <<"-", "5">>}

\* SQL null
Null == "null"

\* new Date().toISOString()
Now == "now"

\* cartItems.reduce((total, item) => total + item.subtotal, 0)
RECURSIVE getTotalAmount(_)
getTotalAmount(cart) ==
    IF cart = <<>> THEN 0
    ELSE Head(cart).subtotal + getTotalAmount(Tail(cart))

getChangeAmount(cash, cart) ==
    LET received == OrZero(parseFloat(cash))
        total == getTotalAmount(cart)
    IN  received - total

\* processOrder's checks with a plausible slip: the customer name is tested
\* untrimmed
processOrderCheck_untrimmedName(cart, name, type, method, cash) ==
    IF Len(cart) = 0 THEN "Keranjang Kosong"
    ELSE IF name = <<>> THEN "Nama Pelanggan Diperlukan"
    ELSE IF /\ type = "order_and_pay"
            /\ method = "cash"
            /\ OrZero(parseFloat(cash)) < getTotalAmount(cart)
         THEN "Uang Tidak Cukup"
    ELSE "ok"

\* processOrder's checks with a plausible slip: the cash received is tested
\* whatever the payment method
processOrderCheck_anyMethod(cart, name, type, method, cash) ==
    IF Len(cart) = 0 THEN "Keranjang Kosong"
    ELSE IF Trim(name) = <<>> THEN "Nama Pelanggan Diperlukan"
    ELSE IF /\ type = "order_and_pay"
            /\ OrZero(parseFloat(cash)) < getTotalAmount(cart)
         THEN "Uang Tidak Cukup"
    ELSE "ok"

\* the checks that open processOrder (POS.tsx:263-294): the title of the
\* notification that rejects the checkout, or "ok"
processOrderCheck(cart, name, type, method, cash) ==
    IF Len(cart) = 0 THEN "Keranjang Kosong"
    ELSE IF Trim(name) = <<>> THEN "Nama Pelanggan Diperlukan"
    ELSE IF /\ type = "order_and_pay"
            /\ method = "cash"
            /\ OrZero(parseFloat(cash)) < getTotalAmount(cart)
         THEN "Uang Tidak Cukup"
    ELSE "ok"

\* orderData with a plausible slip: the selected method is always stored
orderData_selectedMethod(id, cart, name, type, method) ==
    LET isPaying == type = "order_and_pay"
    IN  [id |-> id,
         total |-> getTotalAmount(cart),
         payment_method |-> method,
         payment_status |-> IF isPaying THEN "paid" ELSE "unpaid",
         payment_date |-> IF isPaying THEN Now ELSE Null,
         status |-> "pending",
         customer_name |-> Trim(name)]

\* the orders row processOrder inserts (POS.tsx:299-308); id is set by the
\* backend
orderData(id, cart, name, type, method) ==
    LET isPaying == type = "order_and_pay"
    IN  [id |-> id,
         total |-> getTotalAmount(cart),
         payment_method |-> IF isPaying THEN method ELSE "cash",
         payment_status |-> IF isPaying THEN "paid" ELSE "unpaid",
         payment_date |-> IF isPaying THEN Now ELSE Null,
         status |-> "pending",
         customer_name |-> Trim(name)]

\* the order_items rows processOrder inserts (POS.tsx:318-327); ids are set
\* by the backend, after the firstId - 1 rows it holds
orderItemRows(orderId, firstId, cart) ==
    [k \in 1..Len(cart) |->
        [id |-> firstId + k - 1,
         order_id |-> orderId,
         menu_id |-> cart[k].id,
         qty |-> cart[k].quantity,
         price_at_order |-> cart[k].price,
         subtotal |-> cart[k].subtotal,
         notes |-> IF cart[k].notes = Undefined THEN Undefined ELSE cart[k].notes,
         status |-> "pending"]]

processOrderResult ==
    processOrderCheck(cartItems, customerName, orderType, paymentMethod,
                      cashReceived)

\* processOrder stopped by one of its checks
ProcessOrderRejected ==
    /\ processOrderResult # "ok"
    /\ toast' = processOrderResult
    /\ UNCHANGED <<rtVars, usersVars, reportVars, calcVars, cartVars, formVars, dbVars>>

\* processOrder: getUser or the orders insert fails
ProcessOrderOrderError ==
    /\ processOrderResult = "ok"
    /\ toast' = "Error"
    /\ UNCHANGED <<rtVars, usersVars, reportVars, calcVars, cartVars, formVars, dbVars>>

\* processOrder: the order is inserted, the order_items insert fails
ProcessOrderItemsError ==
    /\ processOrderResult = "ok"
    /\ Len(dbOrders) < MaxOrders
    /\ dbOrders' = Append(dbOrders,
          orderData(Len(dbOrders) + 1, cartItems, customerName, orderType,
                    paymentMethod))
    /\ toast' = "Error"
    /\ UNCHANGED <<rtVars, usersVars, reportVars, calcVars, cartVars, formVars, dbOrderItems>>

\* processOrder: both inserts succeed, cart and form are reset
ProcessOrderOk ==
    /\ processOrderResult = "ok"
    /\ Len(dbOrders) < MaxOrders
    /\ dbOrders' = Append(dbOrders,
          orderData(Len(dbOrders) + 1, cartItems, customerName, orderType,
                    paymentMethod))
    /\ dbOrderItems' = dbOrderItems \o
          orderItemRows(Len(dbOrders) + 1, Len(dbOrderItems) + 1, cartItems)
    /\ cartItems' = <<>>
    /\ cashReceived' = <<>>
    /\ customerName' = <<>>
    /\ paymentMethod' = "cash"
    /\ toast' = "Pesanan Berhasil"
    /\ UNCHANGED <<rtVars, usersVars, reportVars, calcVars, menus, orderType>>

SetCustomerName ==
    /\ \E name \in NameInputs : customerName' = name
    /\ UNCHANGED <<rtVars, usersVars, reportVars, calcVars, cartVars, paymentMethod, cashReceived, orderType,
                   toast, dbVars>>

SetOrderType ==
    /\ \E type \in OrderTypes : orderType' = type
    /\ UNCHANGED <<rtVars, usersVars, reportVars, calcVars, cartVars, paymentMethod, cashReceived,
                   customerName, toast, dbVars>>

\* the method select is shown for 'order_and_pay' only (POS.tsx:666)
SetPaymentMethod ==
    /\ orderType = "order_and_pay"
    /\ \E method \in PaymentMethods : paymentMethod' = method
    /\ UNCHANGED <<rtVars, usersVars, reportVars, calcVars, cartVars, cashReceived, orderType, customerName,
                   toast, dbVars>>

\* the cash field is shown for 'order_and_pay' by cash only (POS.tsx:683)
SetCashReceived ==
    /\ orderType = "order_and_pay"
    /\ paymentMethod = "cash"
    /\ \E cash \in CashInputs : cashReceived' = cash
    /\ UNCHANGED <<rtVars, usersVars, reportVars, calcVars, cartVars, paymentMethod, orderType, customerName,
                   toast, dbVars>>

\* the till is open until the backend table is full
TillOpen == Len(dbOrders) < MaxOrders

\* the cashier adds a menu without variations and notes
CheckoutAdd == TillOpen /\ \E m \in DOMAIN menus : AddToCart(m, <<>>, <<>>)

CheckoutPlus == TillOpen /\ CartPlus

CheckoutMinus == TillOpen /\ CartMinus

CheckoutRemove == TillOpen /\ CartRemove

CheckoutName == TillOpen /\ SetCustomerName

CheckoutType == TillOpen /\ SetOrderType

CheckoutMethod == TillOpen /\ SetPaymentMethod

CheckoutCash == TillOpen /\ SetCashReceived

CheckoutRejected == TillOpen /\ ProcessOrderRejected

CheckoutOrderError == TillOpen /\ ProcessOrderOrderError

\* the POS page after its first fetch, at a time when menu 2 is out of stock
CheckoutInit ==
    /\ CalcIdle
    /\ EnvIdle
    /\ ReportsIdle
    /\ UsersIdle
    /\ RealtimeIdle
    /\ menus = [m \in {1} |-> 2]
    /\ cartItems = <<>>
    /\ paymentMethod = "cash"
    /\ cashReceived = <<>>
    /\ orderType = "order_and_pay"
    /\ customerName = <<>>

CheckoutNext ==
    \/ CheckoutAdd
    \/ CheckoutPlus
    \/ CheckoutMinus
    \/ CheckoutRemove
    \/ CheckoutName
    \/ CheckoutType
    \/ CheckoutMethod
    \/ CheckoutCash
    \/ CheckoutRejected
    \/ CheckoutOrderError
    \/ ProcessOrderItemsError
    \/ ProcessOrderOk

\* the checkout of the POS page
SpecCheckout == CheckoutInit /\ [][CheckoutNext]_vars

----------------------------------------------------------------------------
(* Claims about the cart *)

\* the set of variation ids of a selection
IdSet(variations) == {variations[k] : k \in 1..Len(variations)}

\* lines i and j of the cart have the same identity
SameLineKey(cart, i, j) ==
    /\ cart[i].id = cart[j].id
    /\ IdSet(cart[i].selectedVariations) = IdSet(cart[j].selectedVariations)
    /\ OrEmpty(cart[i].notes) = OrEmpty(cart[j].notes)

CartKeysDistinct(cart) ==
    \A i, j \in 1..Len(cart) : i # j => ~SameLineKey(cart, i, j)

\* some line of the cart has identity (m, set of variations, trimmed notes)
KeyInCart(cart, m, variations, notes) ==
    \E i \in 1..Len(cart) :
        /\ cart[i].id = m
        /\ IdSet(cart[i].selectedVariations) = IdSet(variations)
        /\ OrEmpty(cart[i].notes) = Trim(notes)

\* C5: no two cart lines share menu id, set of variation ids and notes;
\* addToCart with a key already in the cart appends no line, and with a new
\* key it appends exactly one line, of quantity 1, and keeps the others.
C5_CartLineIdentity ==
    /\ CartKeysDistinct(cartItems)
    /\ \A m \in DOMAIN menus :
         \A variations \in VarSelections(m), notes \in NotesInputs :
            LET after == addToCart(cartItems, MenuRow(m), variations, notes)
                n == Len(cartItems)
            IN  IF KeyInCart(cartItems, m, variations, notes)
                THEN Len(after) = n
                ELSE /\ Len(after) = n + 1
                     /\ SubSeq(after, 1, n) = cartItems
                     /\ after[n + 1].quantity = 1
                     /\ after[n + 1].id = m
                     /\ IdSet(after[n + 1].selectedVariations) = IdSet(variations)
                     /\ OrEmpty(after[n + 1].notes) = Trim(notes)

\* addToCart has merged a selection into a line of two variations (its
\* quantity is 2) next to a line of the same menu that differs in its notes
C5_Witness ==
    /\ toast = "Item Ditambahkan"
    /\ Len(cartItems) = 2
    /\ cartItems[1].id = cartItems[2].id
    /\ Len(cartItems[1].selectedVariations) = 2
    /\ cartItems[1].quantity = 2
    /\ cartItems[2].notes # Undefined

\* sum of the quantities of the lines of menu m
RECURSIVE MenuQuantity(_, _)
MenuQuantity(cart, m) ==
    IF cart = <<>> THEN 0
    ELSE (IF Head(cart).id = m THEN Head(cart).quantity ELSE 0)
         + MenuQuantity(Tail(cart), m)

\* C9: for every menu, the quantities of all cart lines of that menu sum to
\* at most the menu's stock (as recorded on its lines).
C9_StockPerMenu ==
    \A i \in 1..Len(cartItems) :
        MenuQuantity(cartItems, cartItems[i].id) <= cartItems[i].stock

\* C16: every cart line has a quantity from 1 to the stock recorded on the
\* line; updateQuantity on a line with a quantity <= 0 removes that line and
\* keeps the others, and with a quantity above the line's stock it leaves
\* the cart as it is.
C16_QuantityWithinStock ==
    \A i \in 1..Len(cartItems) :
        LET item == cartItems[i]
        IN  /\ 1 <= item.quantity
            /\ item.quantity <= item.stock
            /\ \A quantity \in (0 - 1)..(item.stock + 1) :
                  LET after == updateQuantity(cartItems, item.id, quantity,
                                   item.selectedVariations, item.notes)
                  IN  /\ quantity <= 0 =>
                            after = SelectSeq(cartItems,
                                              LAMBDA line : line # item)
                      /\ quantity > item.stock => after = cartItems

\* a line stands at its stock of 2 next to another line, and a further piece
\* was refused
C16_Witness ==
    /\ toast = "Stok Tidak Cukup"
    /\ Len(cartItems) = 2
    /\ \E i \in 1..Len(cartItems) :
          cartItems[i].quantity = 2 /\ cartItems[i].stock = 2
    /\ \E i \in 1..Len(cartItems) : cartItems[i].quantity = 1

\* sum of price_adjustment over a set of variation ids
RECURSIVE AdjSum(_)
AdjSum(ids) ==
    IF ids = {} THEN 0
    ELSE LET v == CHOOSE x \in ids : TRUE
         IN  VariationAdj[v] + AdjSum(ids \ {v})

\* sum of the subtotals of lines 1..n of the cart
RECURSIVE SubtotalSum(_, _)
SubtotalSum(cart, n) ==
    IF n = 0 THEN 0 ELSE SubtotalSum(cart, n - 1) + cart[n].subtotal

\* C17: every cart line has subtotal = (price + the price adjustments of its
\* selected variations) * quantity, and getTotalAmount is the sum of the
\* subtotals of all lines.
C17_SubtotalAndTotal ==
    /\ \A i \in 1..Len(cartItems) :
          cartItems[i].subtotal =
              (cartItems[i].price + AdjSum(IdSet(cartItems[i].selectedVariations)))
                  * cartItems[i].quantity
    /\ getTotalAmount(cartItems) = SubtotalSum(cartItems, Len(cartItems))

\* a line with both variations at quantity 2, next to a second line
C17_Witness ==
    /\ Len(cartItems) = 2
    /\ \E i \in 1..Len(cartItems) :
          /\ Len(cartItems[i].selectedVariations) = 2
          /\ cartItems[i].quantity = 2
          /\ cartItems[i].subtotal = 12
    /\ getTotalAmount(cartItems) > 12

----------------------------------------------------------------------------
(* Claims about the checkout *)

\* a step of processOrder that passed its checks
ProcessOrderAccepted ==
    ProcessOrderOrderError \/ ProcessOrderItemsError \/ ProcessOrderOk

\* a step of processOrder
ProcessOrderStep == ProcessOrderRejected \/ ProcessOrderAccepted

\* the order is to be paid now, by cash
CashPay == orderType = "order_and_pay" /\ paymentMethod = "cash"

\* the number in the cash field, 0 when it holds no number
CashValue ==
    IF parseFloat(cashReceived) = NaN THEN 0 ELSE parseFloat(cashReceived)[1]

\* sum of the subtotals of the cart lines
CartTotal ==
    LET Sum[k \in 0..Len(cartItems)] ==
            IF k = 0 THEN 0 ELSE Sum[k - 1] + cartItems[k].subtotal
    IN  Sum[Len(cartItems)]

\* a text of blanks only
IsBlank(t) == \A k \in 1..Len(t) : t[k] = " "

\* C6: the change is the cash received (0 when the field holds no number)
\* minus the cart total; a checkout paid now by cash is accepted only with
\* change >= 0; for the other methods and for 'order_only' a checkout with
\* items and a customer name is never rejected, whatever the cash field holds.
C6_ChangeOfAcceptedCash ==
    [][/\ getChangeAmount(cashReceived, cartItems) = CashValue - CartTotal
       /\ ProcessOrderAccepted /\ CashPay => CashValue - CartTotal >= 0
       /\ ProcessOrderRejected /\ ~CashPay =>
             cartItems = <<>> \/ IsBlank(customerName)
      ]_vars

\* a cash order was accepted and inserted with its items; one by card could
\* not have been rejected for its cash
C6_Witness ==
    /\ toast = "Pesanan Berhasil"
    /\ Len(dbOrders) = 1
    /\ dbOrders[1].payment_method = "cash"
    /\ dbOrders[1].payment_status = "paid"
    /\ dbOrders[1].total = 3
    /\ Len(dbOrderItems) = 1

\* C7: processOrder rejects the checkout, inserts nothing and leaves
\* cartItems, customerName, paymentMethod and cashReceived unchanged when the
\* cart is empty, or the customer name is blank, or the order is paid now by
\* cash and the cash received is less than the cart total.
C7_RejectedCheckout ==
    [][(/\ ProcessOrderStep
        /\ \/ cartItems = <<>>
           \/ IsBlank(customerName)
           \/ CashPay /\ CashValue < CartTotal)
       => /\ toast' \in {"Keranjang Kosong", "Nama Pelanggan Diperlukan",
                         "Uang Tidak Cukup"}
          /\ UNCHANGED <<cartItems, customerName, paymentMethod, cashReceived,
                         dbOrders, dbOrderItems>>
      ]_vars

\* a checkout with items and a name of blanks only was rejected
C7_Witness ==
    /\ toast = "Nama Pelanggan Diperlukan"
    /\ cartItems # <<>>
    /\ customerName = <<" ">>
    /\ dbOrders = <<>>

\* C8: every order processOrder inserts has status 'pending', and so have all
\* its items; with 'order_and_pay' it is 'paid' by the selected method with a
\* payment date; with 'order_only' it is 'unpaid', method 'cash', no payment
\* date, whatever method is selected.
C8_InsertedOrder ==
    [][Len(dbOrders') > Len(dbOrders) =>
          LET order == dbOrders'[Len(dbOrders')]
          IN  /\ Len(dbOrders') = Len(dbOrders) + 1
              /\ order.status = "pending"
              /\ \A k \in (Len(dbOrderItems) + 1)..Len(dbOrderItems') :
                    /\ dbOrderItems'[k].status = "pending"
                    /\ dbOrderItems'[k].order_id = order.id
              /\ orderType = "order_and_pay" =>
                    /\ order.payment_status = "paid"
                    /\ order.payment_method = paymentMethod
                    /\ order.payment_date # Null
              /\ orderType = "order_only" =>
                    /\ order.payment_status = "unpaid"
                    /\ order.payment_method = "cash"
                    /\ order.payment_date = Null
      ]_vars

\* an 'order_only' order was inserted while a card was selected; its items
\* were refused, so the form still shows the selection
C8_Witness ==
    /\ Len(dbOrders) = 1
    /\ dbOrders[1].payment_status = "unpaid"
    /\ dbOrders[1].payment_method = "cash"
    /\ orderType = "order_only"
    /\ paymentMethod = "debit"
    /\ toast = "Error"

----------------------------------------------------------------------------
(* Reports.tsx: item status handler and refetch *)

\* rows.map(row => row.id === id ? newRow : row)
replaceById(rows, id, newRow) ==
    SeqMap(rows, LAMBDA row : IF row.id = id THEN newRow ELSE row)

\* the rows of a table with the given id (at most one: id is the key)
rowsWithId(rows, id) == SelectSeq(rows, LAMBDA row : row.id = id)

\* .order('created_at', { ascending: false }): newest first
newestFirst(rows) == [k \in 1..Len(rows) |-> rows[Len(rows) + 1 - k]]

\* the carts the backend rows of the Reports page were ordered from
ReportCart1 ==
    addToCart(addToCart(<<>>, [id |-> 1, price |-> MenuPrice[1], stock |-> 2],
                        <<>>, <<>>),
              [id |-> 2, price |-> MenuPrice[2], stock |-> 2], <<>>, <<>>)

ReportCart2 ==
    addToCart(<<>>, [id |-> 1, price |-> MenuPrice[1], stock |-> 2], <<>>, <<>>)

\* the backend as two processOrder calls left it: order 1 with items 1 and 2,
\* order 2 with item 3
InsertedOrders ==
    <<orderData(1, ReportCart1, <<"a">>, "order_only", "cash"),
      orderData(2, ReportCart2, <<"a">>, "order_and_pay", "debit")>>

InsertedOrderItems ==
    orderItemRows(1, 1, ReportCart1) \o orderItemRows(2, 3, ReportCart2)

\* the kitchen has since brought the items to these statuses, one
\* updateOrderItemStatus call after the other: order 1 waits to be served,
\* order 2 is served
ReportStartStatus == (1 :> "ready") @@ (2 :> "delivered")

ReportOrderItems ==
    SeqMap(InsertedOrderItems,
           LAMBDA item : [item EXCEPT !.status = ReportStartStatus[item.order_id]])

ReportOrders ==
    SeqMap(InsertedOrders, LAMBDA order :
        [order EXCEPT !.status = calculateOrderStatus(order.id, ReportOrderItems)])

\* the status a button of the item row sets, by the status shown
\* (Reports.tsx:925-956)
NextItemStatus ==
    ("pending" :> "preparing") @@ ("preparing" :> "ready")
        @@ ("ready" :> "delivered")

\* no row / no call
None == <<>>

\* sequence s without its element at position c
RemoveAt(s, c) ==
    [k \in 1..(Len(s) - 1) |-> IF k < c THEN s[k] ELSE s[k + 1]]

\* a backend write by call c falls between the call every other call in
\* flight repeats and that call's end
Disturb(cs, c) ==
    [k \in 1..Len(cs) |->
        IF k = c THEN cs[k] ELSE [cs[k] EXCEPT !.repeat = FALSE]]

\* the catch block with a plausible slip: no refetch
CatchError_norefetch(c) ==
    /\ toast' = "Error"
    /\ fetches' = fetches
    /\ calls' = RemoveAt(calls, c)
    /\ UNCHANGED <<orders, orderItems, dbVars, lastDone>>
    /\ UNCHANGED <<rtVars, usersVars, calcVars, cartVars, formVars>>

\* the catch block of updateOrderItemStatus (Reports.tsx:408-419): error
\* notification, then fetchData
CatchError(c) ==
    /\ toast' = "Error"
    /\ fetches' = Append(fetches, [stage |-> "sent", orders |-> <<>>,
                                   orderItems |-> <<>>])
    /\ calls' = RemoveAt(calls, c)
    /\ UNCHANGED <<orders, orderItems, dbVars, lastDone>>
    /\ UNCHANGED <<rtVars, usersVars, calcVars, cartVars, formVars>>

\* a status button of a shown item is pressed: updateOrderItemStatus(item.id,
\* newStatus) starts
StartUpdate ==
    /\ Len(calls) < MaxCalls
    /\ \E i \in 1..Len(orderItems) :
          /\ Some(orders, LAMBDA order : order.id = orderItems[i].order_id)
          /\ orderItems[i].status \in DOMAIN NextItemStatus
          /\ calls' = Append(calls,
                [pc |-> "updateItem",
                 itemId |-> orderItems[i].id,
                 newStatus |-> NextItemStatus[orderItems[i].status],
                 updatedItem |-> None,
                 newOrderStatus |-> "",
                 repeat |-> lastDone # None
                            /\ lastDone[1].itemId = orderItems[i].id
                            /\ lastDone[1].newStatus
                                  = NextItemStatus[orderItems[i].status]])
    /\ UNCHANGED <<orders, orderItems, fetches, lastDone, toast, dbVars>>
    /\ UNCHANGED <<rtVars, usersVars, calcVars, cartVars, formVars>>

\* first remote call: update the item's status and read the row back
UpdateItemOk(c) ==
    /\ calls[c].pc = "updateItem"
    /\ rowsWithId(dbOrderItems, calls[c].itemId) # <<>>
    /\ LET row == [rowsWithId(dbOrderItems, calls[c].itemId)[1]
                      EXCEPT !.status = calls[c].newStatus]
       IN  /\ dbOrderItems' = replaceById(dbOrderItems, calls[c].itemId, row)
           /\ calls' = Disturb([calls EXCEPT ![c].pc = "fetchItems",
                                             ![c].updatedItem = <<row>>], c)
    /\ lastDone' = IF calls[c].repeat THEN lastDone ELSE None
    /\ UNCHANGED <<orders, orderItems, fetches, toast, dbOrders>>
    /\ UNCHANGED <<rtVars, usersVars, calcVars, cartVars, formVars>>

\* the first remote call fails: transport error, or no row has the id
UpdateItemError(c) ==
    /\ calls[c].pc = "updateItem"
    /\ Len(fetches) < MaxFetches
    /\ CatchError(c)

\* second remote call: read the order's items, derive the order status
FetchItemsOk(c) ==
    /\ calls[c].pc = "fetchItems"
    /\ LET orderId == calls[c].updatedItem[1].order_id
           allOrderItems ==
               SelectSeq(dbOrderItems, LAMBDA item : item.order_id = orderId)
       IN  calls' = [calls EXCEPT
                        ![c].pc = "updateOrder",
                        ![c].newOrderStatus =
                            calculateOrderStatus(orderId, allOrderItems)]
    /\ UNCHANGED <<orders, orderItems, fetches, lastDone, toast, dbVars>>
    /\ UNCHANGED <<rtVars, usersVars, calcVars, cartVars, formVars>>

FetchItemsError(c) ==
    /\ calls[c].pc = "fetchItems"
    /\ Len(fetches) < MaxFetches
    /\ CatchError(c)

\* third remote call: store the order status, read the row back, then put
\* both rows into the local lists
UpdateOrderOk(c) ==
    /\ calls[c].pc = "updateOrder"
    /\ LET updatedItem == calls[c].updatedItem[1]
           orderId == updatedItem.order_id
       IN  /\ rowsWithId(dbOrders, orderId) # <<>>
           /\ LET updatedOrder == [rowsWithId(dbOrders, orderId)[1]
                                     EXCEPT !.status = calls[c].newOrderStatus]
              IN  /\ dbOrders' = replaceById(dbOrders, orderId, updatedOrder)
                  /\ orderItems' = replaceById(orderItems, calls[c].itemId,
                                               updatedItem)
                  /\ orders' = replaceById(orders, orderId, updatedOrder)
    /\ toast' = "Status Diperbarui"
    /\ calls' = RemoveAt(Disturb(calls, c), c)
    /\ lastDone' = <<[itemId |-> calls[c].itemId,
                       newStatus |-> calls[c].newStatus]>>
    /\ UNCHANGED <<fetches, dbOrderItems>>
    /\ UNCHANGED <<rtVars, usersVars, calcVars, cartVars, formVars>>

UpdateOrderError(c) ==
    /\ calls[c].pc = "updateOrder"
    /\ Len(fetches) < MaxFetches
    /\ CatchError(c)

\* fetchData: the backend answers the three queries
FetchDataRead(f) ==
    /\ fetches[f].stage = "sent"
    /\ fetches' = [fetches EXCEPT ![f] = [stage |-> "read",
                                          orders |-> newestFirst(dbOrders),
                                          orderItems |-> dbOrderItems]]
    /\ UNCHANGED <<orders, orderItems, calls, lastDone, toast, dbVars>>
    /\ UNCHANGED <<rtVars, usersVars, calcVars, cartVars, formVars>>

\* fetchData: the answers arrive and replace the local lists
FetchDataOk(f) ==
    /\ fetches[f].stage = "read"
    /\ orders' = fetches[f].orders
    /\ orderItems' = fetches[f].orderItems
    /\ fetches' = RemoveAt(fetches, f)
    /\ UNCHANGED <<calls, lastDone, toast, dbVars>>
    /\ UNCHANGED <<rtVars, usersVars, calcVars, cartVars, formVars>>

\* fetchData: one of the queries fails
FetchDataError(f) ==
    /\ toast' = "Error"
    /\ fetches' = RemoveAt(fetches, f)
    /\ UNCHANGED <<orders, orderItems, calls, lastDone, dbVars>>
    /\ UNCHANGED <<rtVars, usersVars, calcVars, cartVars, formVars>>

\* the Reports page as mounted: empty lists, the first fetchData sent
ReportsInit ==
    /\ CalcIdle
    /\ PosIdle
    /\ UsersIdle
    /\ RealtimeIdle
    /\ toast = "none"
    /\ dbOrders = ReportOrders
    /\ dbOrderItems = ReportOrderItems
    /\ orders = <<>>
    /\ orderItems = <<>>
    /\ calls = <<>>
    /\ fetches = <<[stage |-> "sent", orders |-> <<>>, orderItems |-> <<>>]>>
    /\ lastDone = None

ReportsNext ==
    \/ StartUpdate
    \/ \E c \in 1..Len(calls) : UpdateItemOk(c)
    \/ \E c \in 1..Len(calls) : UpdateItemError(c)
    \/ \E c \in 1..Len(calls) : FetchItemsOk(c)
    \/ \E c \in 1..Len(calls) : FetchItemsError(c)
    \/ \E c \in 1..Len(calls) : UpdateOrderOk(c)
    \/ \E c \in 1..Len(calls) : UpdateOrderError(c)
    \/ \E f \in 1..Len(fetches) : FetchDataRead(f)
    \/ \E f \in 1..Len(fetches) : FetchDataOk(f)
    \/ \E f \in 1..Len(fetches) : FetchDataError(f)

\* the Reports page of a single client, no other writer, no notification
\* delivered
SpecReports == ReportsInit /\ [][ReportsNext]_vars

----------------------------------------------------------------------------
(* Claims about updateOrderItemStatus *)

\* the status of the row with the given id
StatusOf(rows, id) == rowsWithId(rows, id)[1].status

\* C3: a call of updateOrderItemStatus with the item and the status of the
\* call that succeeded before it, no other write to the backend falling
\* between the two, leaves the item's status and the order's stored status
\* as they were.
C3_RepeatedUpdate ==
    [][\A c \in 1..Len(calls) :
          (calls[c].repeat /\ (UpdateItemOk(c) \/ UpdateOrderOk(c))) =>
              LET item == rowsWithId(dbOrderItems, calls[c].itemId)[1]
              IN  /\ StatusOf(dbOrderItems', item.id) = item.status
                  /\ StatusOf(dbOrders', item.order_id)
                        = StatusOf(dbOrders, item.order_id)
      ]_vars

\* C4: when a call of updateOrderItemStatus completes, the stored status of
\* the order is calculateOrderStatus of the items the backend holds for it,
\* and the page's copies of the order and of the item are the backend's rows.
C4_StoredStatusDerived ==
    [][\A c \in 1..Len(calls) :
          UpdateOrderOk(c) =>
              LET orderId == calls[c].updatedItem[1].order_id
              IN  /\ StatusOf(dbOrders', orderId)
                        = calculateOrderStatus(orderId, dbOrderItems')
                  /\ \A k \in 1..Len(orders') :
                        orders'[k].id = orderId =>
                            orders'[k] = rowsWithId(dbOrders', orderId)[1]
                  /\ \A k \in 1..Len(orderItems') :
                        orderItems'[k].id = calls[c].itemId =>
                            orderItems'[k]
                               = rowsWithId(dbOrderItems', calls[c].itemId)[1]
      ]_vars

\* C10: when one of the three remote calls of updateOrderItemStatus fails,
\* the handler leaves the page's orders and orderItems as they are, shows an
\* error notification and starts fetchData.
C10_FailedUpdate ==
    [][\A c \in 1..Len(calls) :
          (UpdateItemError(c) \/ FetchItemsError(c) \/ UpdateOrderError(c)) =>
              /\ orders' = orders
              /\ orderItems' = orderItems
              /\ toast' = "Error"
              /\ Len(fetches') = Len(fetches) + 1
              /\ fetches'[Len(fetches')].stage = "sent"
      ]_vars

\* a call failed after its item update: the backend has moved on, the page's
\* lists are as fetched, and the refetch is on its way
C10_Witness ==
    /\ toast = "Error"
    /\ calls = <<>>
    /\ Len(fetches) = 1
    /\ fetches[1].stage = "sent"
    /\ orderItems = ReportOrderItems
    /\ dbOrderItems # ReportOrderItems

----------------------------------------------------------------------------
(* Users.tsx: profile list, edit dialog and delete *)

\* roles (Users.tsx:35-40)
roles == {"owner", "manager", "staff", "cashier"}

\* texts typed into the name and email fields
FullNameInputs == {<<>>, <<"a">>}

EmailInputs == {<<>>, <<"a">>}

\* the profiles table when the page is opened: the owner's profile, and a
\* newer staff profile without a name
ProfilesStart ==
    <<[id |-> 1, user_id |-> 1, full_name |-> <<"a">>, email |-> <<"a">>,
       role |-> "owner"],
      [id |-> 2, user_id |-> 2, full_name |-> <<>>, email |-> <<"a">>,
       role |-> "staff"]>>

\* the form as resetForm leaves it (Users.tsx:81-89)
EmptyForm == [full_name |-> <<>>, email |-> <<>>, role |-> "staff"]

\* profiles.find(p => p.user_id === user?.id)
currentUserProfile ==
    LET found == {i \in 1..Len(profiles) : profiles[i].user_id = user}
    IN  IF found = {} THEN None
        ELSE <<profiles[CHOOSE i \in found : \A j \in found : i <= j]>>

\* canManageUsers with a plausible slip: any signed-in user with a profile
canManageUsers_anyprofile == currentUserProfile # None

\* currentUserProfile?.role === 'owner'
canManageUsers ==
    currentUserProfile # None /\ currentUserProfile[1].role = "owner"

\* the edit dialog is rendered (Users.tsx:423-424)
DialogShown == canManageUsers /\ dialogOpen

\* the table with its action buttons is rendered (Users.tsx:336, 385)
ActionsShown == canManageUsers /\ ~loading

\* a fetchProfiles request on its way
FetchProfilesSent == [kind |-> "fetch", stage |-> "sent", rows |-> <<>>]

\* fetchProfiles: the backend answers the query, newest profile first
UsersFetchRead(c) ==
    /\ userCalls[c].kind = "fetch"
    /\ userCalls[c].stage = "sent"
    /\ userCalls' = [userCalls EXCEPT ![c].stage = "read",
                                      ![c].rows = newestFirst(dbProfiles)]
    /\ UNCHANGED <<profiles, dbProfiles, user, loading, dialogOpen,
                   editingProfile, formData, toast>>
    /\ UNCHANGED <<rtVars, reportVars, calcVars, cartVars, formVars, dbVars>>

\* fetchProfiles: the answer arrives
UsersFetchOk(c) ==
    /\ userCalls[c].kind = "fetch"
    /\ userCalls[c].stage = "read"
    /\ profiles' = userCalls[c].rows
    /\ loading' = FALSE
    /\ userCalls' = RemoveAt(userCalls, c)
    /\ UNCHANGED <<dbProfiles, user, dialogOpen, editingProfile, formData, toast>>
    /\ UNCHANGED <<rtVars, reportVars, calcVars, cartVars, formVars, dbVars>>

\* fetchProfiles: the query fails
UsersFetchError(c) ==
    /\ userCalls[c].kind = "fetch"
    /\ toast' = "Error"
    /\ loading' = FALSE
    /\ userCalls' = RemoveAt(userCalls, c)
    /\ UNCHANGED <<profiles, dbProfiles, user, dialogOpen, editingProfile,
                   formData>>
    /\ UNCHANGED <<rtVars, reportVars, calcVars, cartVars, formVars, dbVars>>

\* 'Tambah Pengguna'
OpenAddDialog ==
    /\ canManageUsers
    /\ formData' = EmptyForm
    /\ editingProfile' = None
    /\ dialogOpen' = TRUE
    /\ UNCHANGED <<profiles, dbProfiles, user, loading, userCalls, toast>>
    /\ UNCHANGED <<rtVars, reportVars, calcVars, cartVars, formVars, dbVars>>

\* the edit button of row i
OpenEditDialog(i) ==
    /\ ActionsShown
    /\ editingProfile' = <<profiles[i]>>
    /\ formData' = [full_name |-> profiles[i].full_name,
                    email |-> profiles[i].email,
                    role |-> profiles[i].role]
    /\ dialogOpen' = TRUE
    /\ UNCHANGED <<profiles, dbProfiles, user, loading, userCalls, toast>>
    /\ UNCHANGED <<rtVars, reportVars, calcVars, cartVars, formVars, dbVars>>

\* 'Batal', or the dialog is dismissed
CloseDialog ==
    /\ DialogShown
    /\ dialogOpen' = FALSE
    /\ UNCHANGED <<profiles, dbProfiles, user, loading, editingProfile,
                   formData, userCalls, toast>>
    /\ UNCHANGED <<rtVars, reportVars, calcVars, cartVars, formVars, dbVars>>

\* a field of the dialog is edited; the email field is disabled unless a
\* profile is being edited
SetFormData(newForm) ==
    /\ DialogShown
    /\ newForm # formData
    /\ editingProfile = None => newForm.email = formData.email
    /\ formData' = newForm
    /\ UNCHANGED <<profiles, dbProfiles, user, loading, dialogOpen,
                   editingProfile, userCalls, toast>>
    /\ UNCHANGED <<rtVars, reportVars, calcVars, cartVars, formVars, dbVars>>

\* the browser lets the form be submitted: the button is enabled and the
\* required fields that are enabled are filled
CanSubmit ==
    /\ DialogShown
    /\ ~loading
    /\ formData.full_name # <<>>
    /\ editingProfile # None => formData.email # <<>>

\* handleSubmit up to its first await
HandleSubmit ==
    /\ CanSubmit
    /\ IF formData.full_name = <<>> \/ formData.email = <<>>
       THEN /\ toast' = "Nama lengkap dan email harus diisi"
            /\ UNCHANGED <<loading, dialogOpen, editingProfile, formData,
                           userCalls>>
       ELSE IF editingProfile # None
       THEN /\ loading' = TRUE
            /\ userCalls' = Append(userCalls,
                   [kind |-> "update", id |-> editingProfile[1].id,
                    data |-> formData])
            /\ UNCHANGED <<dialogOpen, editingProfile, formData, toast>>
       ELSE /\ loading' = TRUE
            /\ toast' = "Info"
            /\ dialogOpen' = FALSE
            /\ formData' = EmptyForm
            /\ editingProfile' = None
            /\ userCalls' = Append(userCalls, FetchProfilesSent)
    /\ UNCHANGED <<profiles, dbProfiles, user>>
    /\ UNCHANGED <<rtVars, reportVars, calcVars, cartVars, formVars, dbVars>>

\* handleSubmit: the update succeeded; the dialog closes and fetchProfiles
\* starts
UpdateProfileOk(c) ==
    /\ userCalls[c].kind = "update"
    /\ dbProfiles' = SeqMap(dbProfiles, LAMBDA p :
           IF p.id = userCalls[c].id
           THEN [p EXCEPT !.full_name = userCalls[c].data.full_name,
                          !.email = userCalls[c].data.email,
                          !.role = userCalls[c].data.role]
           ELSE p)
    /\ toast' = "Profil pengguna berhasil diperbarui"
    /\ dialogOpen' = FALSE
    /\ formData' = EmptyForm
    /\ editingProfile' = None
    /\ loading' = TRUE
    /\ userCalls' = [userCalls EXCEPT ![c] = FetchProfilesSent]
    /\ UNCHANGED <<profiles, user>>
    /\ UNCHANGED <<rtVars, reportVars, calcVars, cartVars, formVars, dbVars>>

\* handleSubmit: the update failed
UpdateProfileError(c) ==
    /\ userCalls[c].kind = "update"
    /\ toast' = "Error"
    /\ loading' = FALSE
    /\ userCalls' = RemoveAt(userCalls, c)
    /\ UNCHANGED <<profiles, dbProfiles, user, dialogOpen, editingProfile,
                   formData>>
    /\ UNCHANGED <<rtVars, reportVars, calcVars, cartVars, formVars, dbVars>>

\* handleDelete with a plausible slip: the test for the own profile is
\* missing
HandleDelete_noselfcheck(i, confirmed) ==
    /\ IF ~confirmed
       THEN UNCHANGED <<loading, userCalls, toast>>
       ELSE /\ loading' = TRUE
            /\ userCalls' = Append(userCalls,
                   [kind |-> "delete", id |-> profiles[i].id])
            /\ UNCHANGED toast
    /\ UNCHANGED <<profiles, dbProfiles, user, dialogOpen, editingProfile,
                   formData>>
    /\ UNCHANGED <<rtVars, reportVars, calcVars, cartVars, formVars, dbVars>>

\* handleDelete(profiles[i]) up to its first await; confirmed is the answer
\* to the confirm() question
HandleDelete(i, confirmed) ==
    /\ IF profiles[i].user_id = user
       THEN /\ toast' = "Anda tidak dapat menghapus akun Anda sendiri"
            /\ UNCHANGED <<loading, userCalls>>
       ELSE IF ~confirmed
       THEN UNCHANGED <<loading, userCalls, toast>>
       ELSE /\ loading' = TRUE
            /\ userCalls' = Append(userCalls,
                   [kind |-> "delete", id |-> profiles[i].id])
            /\ UNCHANGED toast
    /\ UNCHANGED <<profiles, dbProfiles, user, dialogOpen, editingProfile,
                   formData>>
    /\ UNCHANGED <<rtVars, reportVars, calcVars, cartVars, formVars, dbVars>>

\* the delete button of row i, shown for the rows of other users
ClickDelete ==
    \E i \in 1..Len(profiles), confirmed \in BOOLEAN :
        /\ ActionsShown
        /\ profiles[i].user_id # user
        /\ HandleDelete(i, confirmed)

\* handleDelete reached with the signed-in user's own row, for which no
\* button is shown
DeleteOwnProfile ==
    \E i \in 1..Len(profiles), confirmed \in BOOLEAN :
        /\ profiles[i].user_id = user
        /\ HandleDelete(i, confirmed)

\* handleDelete: the delete succeeded; fetchProfiles starts
DeleteProfileOk(c) ==
    /\ userCalls[c].kind = "delete"
    /\ dbProfiles' = SelectSeq(dbProfiles, LAMBDA p : p.id # userCalls[c].id)
    /\ toast' = "Pengguna berhasil dihapus"
    /\ loading' = TRUE
    /\ userCalls' = [userCalls EXCEPT ![c] = FetchProfilesSent]
    /\ UNCHANGED <<profiles, user, dialogOpen, editingProfile, formData>>
    /\ UNCHANGED <<rtVars, reportVars, calcVars, cartVars, formVars, dbVars>>

\* handleDelete: the delete failed
DeleteProfileError(c) ==
    /\ userCalls[c].kind = "delete"
    /\ toast' = "Error"
    /\ loading' = FALSE
    /\ userCalls' = RemoveAt(userCalls, c)
    /\ UNCHANGED <<profiles, dbProfiles, user, dialogOpen, editingProfile,
                   formData>>
    /\ UNCHANGED <<rtVars, reportVars, calcVars, cartVars, formVars, dbVars>>

\* the Users page as mounted by either user: empty list, fetchProfiles sent
UsersInit ==
    /\ CalcIdle
    /\ PosIdle
    /\ EnvIdle
    /\ ReportsIdle
    /\ RealtimeIdle
    /\ dbProfiles = ProfilesStart
    /\ profiles = <<>>
    /\ user \in {1, 2}
    /\ loading = TRUE
    /\ dialogOpen = FALSE
    /\ editingProfile = None
    /\ formData = EmptyForm
    /\ userCalls = <<FetchProfilesSent>>

UsersNext ==
    \/ \E c \in 1..Len(userCalls) : UsersFetchRead(c)
    \/ \E c \in 1..Len(userCalls) : UsersFetchOk(c)
    \/ \E c \in 1..Len(userCalls) : UsersFetchError(c)
    \/ OpenAddDialog
    \/ \E i \in 1..Len(profiles) : OpenEditDialog(i)
    \/ CloseDialog
    \/ \E newForm \in [full_name : FullNameInputs, email : EmailInputs,
                       role : roles] : SetFormData(newForm)
    \/ HandleSubmit
    \/ \E c \in 1..Len(userCalls) : UpdateProfileOk(c)
    \/ \E c \in 1..Len(userCalls) : UpdateProfileError(c)
    \/ ClickDelete
    \/ DeleteOwnProfile
    \/ \E c \in 1..Len(userCalls) : DeleteProfileOk(c)
    \/ \E c \in 1..Len(userCalls) : DeleteProfileError(c)

\* the Users page of one signed-in user
SpecUsers == UsersInit /\ [][UsersNext]_vars

----------------------------------------------------------------------------
(* Claims about the Users page *)

\* C12: handleDelete on a profile of the signed-in user issues no request
\* and leaves the profiles list, and the backend's profiles, as they are.
C12_NoSelfDelete ==
    [][\A i \in 1..Len(profiles), confirmed \in BOOLEAN :
          (profiles[i].user_id = user /\ HandleDelete(i, confirmed)) =>
              /\ userCalls' = userCalls
              /\ profiles' = profiles
              /\ dbProfiles' = dbProfiles
      ]_vars

\* the owner, with the list loaded, was refused the deletion of the own
\* profile
C12_Witness ==
    /\ toast = "Anda tidak dapat menghapus akun Anda sendiri"
    /\ canManageUsers
    /\ Len(profiles) = 2
    /\ userCalls = <<>>

\* the local list holds a profile of the signed-in user with role owner
OwnerSignedIn ==
    \E i \in 1..Len(profiles) :
        profiles[i].user_id = user /\ profiles[i].role = "owner"

\* this step sends a profile update or delete request
RequestIssued ==
    /\ Len(userCalls') = Len(userCalls) + 1
    /\ userCalls'[Len(userCalls')].kind \in {"update", "delete"}

\* C13: a profile update or delete request is sent only while the local
\* list shows the signed-in user as owner.
C13_OnlyOwnerManages ==
    [][RequestIssued => OwnerSignedIn]_vars

\* the owner has sent the update that takes the owner role from the own
\* profile
C13_Witness ==
    /\ OwnerSignedIn
    /\ Len(userCalls) = 1
    /\ userCalls[1].kind = "update"
    /\ userCalls[1].data.role # "owner"
    /\ \E i \in 1..Len(profiles) :
          profiles[i].user_id = user /\ profiles[i].id = userCalls[1].id

----------------------------------------------------------------------------
(* Reports.tsx: change notifications next to fetchData *)

\* both channels are subscribed (Reports.tsx:72-110, .subscribe())
Subscribe ==
    /\ ~subscribed
    /\ subscribed' = TRUE
    /\ UNCHANGED <<events, writes>>
    /\ UNCHANGED <<usersVars, reportVars, calcVars, cartVars, formVars, toast,
                   dbVars>>

\* the order another till inserts with processOrder
WrittenOrder == orderData(3, ReportCart2, <<"a">>, "order_only", "cash")

\* a writer of the backend may act: the channels are subscribed, so every
\* write is notified
WriterMayAct == subscribed /\ writes < MaxWrites

\* a till inserts an order (POS.tsx:310-315)
WriterInsertOrder ==
    /\ WriterMayAct
    /\ rowsWithId(dbOrders, WrittenOrder.id) = <<>>
    /\ dbOrders' = Append(dbOrders, WrittenOrder)
    /\ events' = Append(events, [table |-> "orders", eventType |-> "INSERT",
                                 row |-> WrittenOrder])
    /\ writes' = writes + 1
    /\ UNCHANGED <<subscribed, dbOrderItems>>
    /\ UNCHANGED <<usersVars, reportVars, calcVars, cartVars, formVars, toast>>

\* another Reports page moves an item to its next status (Reports.tsx:342-347)
WriterUpdateItem(i) ==
    /\ WriterMayAct
    /\ dbOrderItems[i].status \in DOMAIN NextItemStatus
    /\ LET row == [dbOrderItems[i] EXCEPT
                      !.status = NextItemStatus[dbOrderItems[i].status]]
       IN  /\ dbOrderItems' = [dbOrderItems EXCEPT ![i] = row]
           /\ events' = Append(events, [table |-> "order_items",
                                        eventType |-> "UPDATE", row |-> row])
    /\ writes' = writes + 1
    /\ UNCHANGED <<subscribed, dbOrders>>
    /\ UNCHANGED <<usersVars, reportVars, calcVars, cartVars, formVars, toast>>

\* an item row is deleted in the backend
WriterDeleteItem(i) ==
    /\ WriterMayAct
    /\ dbOrderItems' = RemoveAt(dbOrderItems, i)
    /\ events' = Append(events, [table |-> "order_items",
                                 eventType |-> "DELETE",
                                 row |-> dbOrderItems[i]])
    /\ writes' = writes + 1
    /\ UNCHANGED <<subscribed, dbOrders>>
    /\ UNCHANGED <<usersVars, reportVars, calcVars, cartVars, formVars, toast>>

\* the callback of channel 'orders-changes' (Reports.tsx:78-89)
ordersChange(prev, payload) ==
    IF payload.eventType = "INSERT" THEN <<payload.row>> \o prev
    ELSE IF payload.eventType = "UPDATE"
    THEN replaceById(prev, payload.row.id, payload.row)
    ELSE IF payload.eventType = "DELETE"
    THEN SelectSeq(prev, LAMBDA order : order.id # payload.row.id)
    ELSE prev

\* the callback of channel 'order-items-changes' (Reports.tsx:98-109)
orderItemsChange(prev, payload) ==
    IF payload.eventType = "INSERT" THEN Append(prev, payload.row)
    ELSE IF payload.eventType = "UPDATE"
    THEN replaceById(prev, payload.row.id, payload.row)
    ELSE IF payload.eventType = "DELETE"
    THEN SelectSeq(prev, LAMBDA item : item.id # payload.row.id)
    ELSE prev

\* notification e is delivered; notifications arrive in any order
Notify(e) ==
    /\ IF events[e].table = "orders"
       THEN /\ orders' = ordersChange(orders, events[e])
            /\ UNCHANGED orderItems
       ELSE /\ orderItems' = orderItemsChange(orderItems, events[e])
            /\ UNCHANGED orders
    /\ events' = RemoveAt(events, e)
    /\ UNCHANGED <<subscribed, writes, calls, fetches, lastDone>>
    /\ UNCHANGED <<usersVars, calcVars, cartVars, formVars, toast, dbVars>>

\* the Reports page as mounted, channels not yet subscribed
RealtimeInit ==
    /\ ReportsInit
    /\ ~subscribed

RealtimeNext ==
    \/ Subscribe
    \/ WriterInsertOrder
    \/ \E i \in 1..Len(dbOrderItems) : WriterUpdateItem(i)
    \/ \E i \in 1..Len(dbOrderItems) : WriterDeleteItem(i)
    \/ \E e \in 1..Len(events) : Notify(e)
    \/ \E f \in 1..Len(fetches) : FetchDataRead(f)
    \/ \E f \in 1..Len(fetches) : FetchDataOk(f)
    \/ StartUpdate
    \/ \E c \in 1..Len(calls) : UpdateItemError(c)

\* the Reports page with its subscriptions, the backend written by others
SpecRealtime == RealtimeInit /\ [][RealtimeNext]_vars

----------------------------------------------------------------------------
(* Claims about the Reports page's copies *)

\* the local list holds exactly the rows of the table
SameRows(local, table) ==
    /\ Len(local) = Len(table)
    /\ {local[k] : k \in 1..Len(local)} = {table[k] : k \in 1..Len(table)}

\* no fetchData answer, notification or call is on its way
NothingInFlight ==
    /\ subscribed
    /\ fetches = <<>>
    /\ events = <<>>
    /\ calls = <<>>

\* C11: when every fetchData answer and every change notification has been
\* delivered, the local orders and orderItems hold exactly the backend's
\* rows.
C11_LocalConverges ==
    NothingInFlight =>
        /\ SameRows(orders, dbOrders)
        /\ SameRows(orderItems, dbOrderItems)

====
